---- MODULE Spec2Model ----
(***************************************************************************)
(* Model of configmap-syncer-controller/cm_syncer.py: the watch loop       *)
(* watch_source_configmap and the replicate pass sync_configmap_data.      *)
(*                                                                         *)
(* Program state: resource_version, backoff_time, the control position pc  *)
(* and, inside a pass, the index i into TARGET_CONFIGMAPS.  Environment:   *)
(* store (the target ConfigMaps on the API server) and the notification    *)
(* last yielded by the watch stream.  The remaining variables record what  *)
(* the program did (log lines, patch calls, sleeps, stream opens).         *)
(***************************************************************************)
EXTENDS Integers, Sequences, FiniteSets, TLC

VARIABLES
    pc,               \* "boot" | "open" | "read" | "sync" | "sleep" | "stopped"
    resource_version, \* cm_syncer.py:80, NoCursor models None
    backoff_time,     \* cm_syncer.py:81
    i,                \* position of the for loop of sync_configmap_data (0 outside a pass)
    event,            \* the notification most recently yielded by w.stream
    store,            \* the target ConfigMaps held by the API server
    log,              \* log records emitted while handling the current notification
    patched,          \* targets on which patch_namespaced_config_map was called for it
    presented,        \* resource_version handed to the most recent w.stream call
    opens,            \* number of w.stream calls so far, counted up to MaxOpens
    lastSleep,        \* argument of the most recent time.sleep call (0: none yet)
    streak,           \* sleeps since start or since the last ADDED/MODIFIED notification
    everPatched,      \* a patch call has been issued in this run
    bootOK,           \* load_incluster_config and client construction succeeded
    ended,            \* how the current stream terminated ("none" while it has not)
    targets,          \* the module-level list TARGET_CONFIGMAPS as the passes read it
    streams,          \* number of watch subscriptions currently open
    repeat,           \* the current notification is ADDED/MODIFIED with the same
                      \* non-empty data as the ADDED/MODIFIED notification before it
    syncedInConn      \* an ADDED/MODIFIED notification was handled on the latest stream

vars == << pc, resource_version, backoff_time, i, event, store, log, patched,
           presented, opens, lastSleep, streak, everPatched, bootOK, ended,
           targets, streams, repeat, syncedInConn >>

----------------------------------------------------------------------------
(* Bounds of the model *)

MaxRV == 3        \* resource versions delivered by the server are 1..MaxRV
MaxStreak == 10   \* consecutive sleeps counted before the counter saturates
MaxOpens == 2     \* opens is counted up to this value ("first" / "later")

(* Program constants *)

NoCursor == 0           \* resource_version = None
InitialBackoff == 1     \* backoff_time = 1
MaxBackoff == 60        \* min(backoff_time * 2, 60)

Keys == {"a", "b"}
Vals == {"0", "1"}

\* A ConfigMap data field: a mapping of some keys to string values.
Maps == UNION { [D -> Vals] : D \in SUBSET Keys }
EmptyMap == [k \in {} |-> "0"]

\* The dictionaries the source ConfigMap carries in the notifications of a run.
SnapshotMaps == { EmptyMap, [k \in {"a"} |-> "1"], [k \in {"b"} |-> "0"],
                  [k \in Keys |-> IF k = "a" THEN "0" ELSE "1"] }

\* The value of cm_obj.data: None, or a (possibly empty) dictionary.
SourceData == { [none |-> TRUE, kv |-> EmptyMap] } \cup
              { [none |-> FALSE, kv |-> m] : m \in SnapshotMaps }

TARGET_CONFIGMAPS ==
    << [name |-> "config-1", namespace |-> "dev"],
       [name |-> "config-2", namespace |-> "stage"] >>

\* The configurations checked: the list as written, and the same list with
\* its second entry replaced by a repetition of the first.
TargetLists ==
    { TARGET_CONFIGMAPS,
      << TARGET_CONFIGMAPS[1], TARGET_CONFIGMAPS[1] >> }

TargetKey(target) == << target.namespace, target.name >>

TargetKeys(ts) == { TargetKey(ts[n]) : n \in 1..Len(ts) }

\* A target on the server: absent, or present with a data field.
TargetStates == { [exists |-> FALSE, data |-> EmptyMap] } \cup
                { [exists |-> TRUE, data |-> m] : m \in Maps }

\* The states the targets are in when the controller starts.
InitialTargetStates ==
    { [exists |-> FALSE, data |-> EmptyMap],
      [exists |-> TRUE, data |-> EmptyMap],
      [exists |-> TRUE, data |-> [k \in Keys |-> IF k = "a" THEN "0" ELSE "1"]] }

EventTypes == {"ADDED", "MODIFIED", "DELETED", "BOOKMARK"}

NoEvent == [type |-> "NONE", data |-> [none |-> TRUE, kv |-> EmptyMap], rv |-> NoCursor]

Min(x, y) == IF x <= y THEN x ELSE y

----------------------------------------------------------------------------
(* Pure pieces of the code *)

\* Variant of IsFalsy: the test `source_data is None`, which lets {} through.
IsFalsyNoneOnly(source_data) == source_data.none

\* `if not source_data`: None and the empty dictionary are both falsy.
IsFalsy(source_data) == source_data.none \/ DOMAIN source_data.kv = {}

\* Variant of IsSyncEvent: DELETED is replicated like a change.
IsSyncEventOrDeleted(event_type) == event_type \in {"ADDED", "MODIFIED", "DELETED"}

\* `event_type in ["ADDED", "MODIFIED"]`
IsSyncEvent(event_type) == event_type \in {"ADDED", "MODIFIED"}

\* `event_type == "DELETED"`
IsDeletedEvent(event_type) == event_type = "DELETED"

\* Variant of NextBackoff: the cap applied before the doubling.
NextBackoffCapFirst(b) == Min(b, MaxBackoff) * 2

\* Variant of NextBackoff: the doubling without the cap.
NextBackoffNoCap(b) == b * 2

\* `backoff_time = min(backoff_time * 2, 60)`
NextBackoff(b) == Min(b * 2, MaxBackoff)

\* Variant of CursorAfterEvent: the assignment moved into the ADDED/MODIFIED branch.
CursorOnlyOnSync(old, ev) == IF ev.type \in {"ADDED", "MODIFIED"} THEN ev.rv ELSE old

\* Variant of CursorAfterEvent: the cursor is dropped when the source is deleted.
CursorResetOnDeleted(old, ev) == IF ev.type = "DELETED" THEN NoCursor ELSE ev.rv

\* `resource_version = cm_obj.metadata.resource_version`
CursorAfterEvent(old, ev) == ev.rv

\* The server's handling of body = {"data": source_data} sent by
\* patch_namespaced_config_map.  The client sends a dictionary body as a
\* strategic merge patch; a map field such as data is merged key by key:
\* the keys of the patch are set, the other keys of the object are kept.
ApplyPatch(old, body) ==
    [k \in (DOMAIN old) \cup (DOMAIN body) |->
        IF k \in DOMAIN body THEN body[k] ELSE old[k]]

\* What one patch call can return for a target in a given server state.
\* "ok": the call returns; "404": ApiException with status 404;
\* "api": any other ApiException; "exc": any other Exception.
PatchOutcomes(t) == IF t.exists THEN {"ok", "api", "exc"} ELSE {"404", "api", "exc"}

\* The log record each outcome produces (lines 47, 52, 56, 58).
OutcomeLog(outcome) ==
    CASE outcome = "ok" -> "info_synced"
      [] outcome = "404" -> "error_not_found"
      [] outcome = "api" -> "error_patch_failed"
      [] OTHER -> "critical_unexpected"

----------------------------------------------------------------------------
Init ==
    /\ pc = "boot"
    /\ resource_version = NoCursor
    /\ backoff_time = InitialBackoff
    /\ i = 0
    /\ event = NoEvent
    /\ targets \in TargetLists
    /\ store \in [TargetKeys(targets) -> InitialTargetStates]
    /\ log = << >>
    /\ patched = << >>
    /\ presented = NoCursor
    /\ opens = 0
    /\ lastSleep = 0
    /\ streak = 0
    /\ everPatched = FALSE
    /\ bootOK = FALSE
    /\ ended = "none"
    /\ streams = 0
    /\ repeat = FALSE
    /\ syncedInConn = FALSE

----------------------------------------------------------------------------
(* watch_source_configmap, lines 64-81: bootstrap *)

\* Where control goes when the bootstrap try block raises (line 78: return).
AfterBootFailure == "stopped"

Bootstrap ==
    /\ pc = "boot"
    /\ \E ok \in BOOLEAN :
         IF ok
         THEN /\ bootOK' = TRUE
              /\ resource_version' = NoCursor
              /\ backoff_time' = InitialBackoff
              /\ pc' = "open"
         ELSE /\ pc' = AfterBootFailure
              /\ UNCHANGED << bootOK, resource_version, backoff_time >>
    /\ UNCHANGED << i, event, store, log, patched, presented, opens, lastSleep,
                    streak, everPatched, ended, targets, streams, repeat,
                    syncedInConn >>

\* Variant of CursorToPresent: every stream starts from the current state.
CursorAlwaysUnset == NoCursor

\* The cursor handed to w.stream: the variable resource_version.
CursorToPresent == resource_version

(* lines 83-97: the call w.stream(..., resource_version=resource_version) *)
OpenStream ==
    /\ pc = "open"
    /\ presented' = CursorToPresent
    /\ opens' = Min(opens + 1, MaxOpens)
    /\ ended' = "none"
    /\ streams' = streams + 1
    /\ syncedInConn' = FALSE
    /\ pc' = "read"
    /\ UNCHANGED << resource_version, backoff_time, i, event, store, log, patched,
                    lastSleep, streak, everPatched, bootOK, targets, repeat >>

\* The notifications the server can yield next on the open stream: any kind,
\* any data, and a resource version after the cursor presented at the open
\* and after every notification already delivered.
NextEvents ==
    { [type |-> t, data |-> d, rv |-> r] :
        t \in EventTypes, d \in SourceData,
        r \in { n \in 1..MaxRV : n > event.rv /\ n > presented } }

\* Variant of BackoffAfterSyncEvent: the reset of line 110 made only when
\* the pass synced at least one target.
ResetOnlyIfSynced(b, lg) ==
    IF \E n \in 1..Len(lg) : lg[n] = "info_synced" THEN InitialBackoff ELSE b

\* Line 110, after sync_configmap_data returned with the log records lg:
\* `backoff_time = 1`, whatever the pass did.
BackoffAfterSyncEvent(b, lg) == InitialBackoff

(* lines 98-118: one iteration of the for loop over the stream, up to the  *)
(* point where sync_configmap_data enters its own loop over the targets.   *)
HandleEvent ==
    /\ pc = "read"
    /\ \E ev \in NextEvents :
         /\ event' = ev
         /\ resource_version' = CursorAfterEvent(resource_version, ev)
         /\ patched' = << >>
         /\ repeat' = /\ ev.type \in {"ADDED", "MODIFIED"}
                       /\ event.type \in {"ADDED", "MODIFIED"}
                       /\ ~ev.data.none /\ ev.data.kv # EmptyMap
                       /\ ev.data = event.data
         /\ IF IsSyncEvent(ev.type)
            THEN IF IsFalsy(ev.data)
                 THEN \* sync_configmap_data returns at line 27; line 110 runs
                      /\ log' = << "warning_empty" >>
                      /\ backoff_time' = BackoffAfterSyncEvent(backoff_time, log')
                      /\ streak' = 0
                      /\ syncedInConn' = TRUE
                      /\ UNCHANGED << pc, i >>
                 ELSE \* line 29, then the loop of line 33 starts
                      /\ log' = << "info_syncing" >>
                      /\ pc' = "sync"
                      /\ i' = 1
                      /\ UNCHANGED << backoff_time, streak, syncedInConn >>
            ELSE /\ log' = IF IsDeletedEvent(ev.type)
                            THEN << "warning_deleted" >>
                            ELSE << "debug_ignored" >>
                 /\ UNCHANGED << pc, i, backoff_time, streak, syncedInConn >>
    /\ UNCHANGED << store, presented, opens, lastSleep, everPatched, bootOK, ended,
                    targets, streams >>

\* Variant of Escapes: the `except Exception` clause of line 57 is missing.
EscapesUnexpected(outcome) == outcome = "exc"

\* Variant of Escapes: the non-404 ApiException is re-raised after line 56.
EscapesApiError(outcome) == outcome = "api"

\* Variant of Escapes: the 404 branch raises instead of `continue`.
EscapesNotFound(outcome) == outcome = "404"

\* Whether an outcome of the patch call leaves the try statement of lines
\* 40-58 as an exception: ApiException and Exception are both caught.
Escapes(outcome) == FALSE

\* Variant of TargetsAfterPatch: a target found missing is dropped from the list.
DropMissingTarget(ts, n, outcome) ==
    IF outcome = "404"
    THEN [m \in 1..(Len(ts) - 1) |-> IF m < n THEN ts[m] ELSE ts[m + 1]]
    ELSE ts

\* The list after one iteration of the loop: no statement assigns to
\* TARGET_CONFIGMAPS or changes an entry.
TargetsAfterPatch(ts, n, outcome) == ts

\* Variant of NextIndex: entries naming a ConfigMap already patched in this
\* pass are skipped.
SkipDuplicates(ts, n) ==
    LET fresh == { m \in (n + 1)..Len(ts) :
                     \A j \in 1..n : TargetKey(ts[j]) # TargetKey(ts[m]) }
    IN IF fresh = {} THEN Len(ts) + 1
       ELSE CHOOSE m \in fresh : \A x \in fresh : m <= x

\* The entry the for loop of line 33 takes after entry n: the next one.
NextIndex(ts, n) == n + 1

(* lines 33-58: one iteration of the loop over TARGET_CONFIGMAPS; the last *)
(* iteration returns to the watch loop, which runs line 110.               *)
PatchTarget ==
    /\ pc = "sync"
    /\ LET target == targets[i]
           key == TargetKey(target)
           body == event.data.kv
       IN \E outcome \in PatchOutcomes(store[key]) :
            /\ patched' = Append(patched, i)
            /\ everPatched' = TRUE
            /\ store' = IF outcome = "ok"
                        THEN [store EXCEPT ![key] =
                                [exists |-> TRUE, data |-> ApplyPatch(@.data, body)]]
                        ELSE store
            /\ log' = Append(log, OutcomeLog(outcome))
            /\ targets' = TargetsAfterPatch(targets, i, outcome)
            /\ IF Escapes(outcome)
               THEN \* caught by line 125 of the watch loop
                    /\ pc' = "sleep"
                    /\ i' = 0
                    /\ ended' = "exc"
                    /\ streams' = streams - 1
                    /\ UNCHANGED << backoff_time, streak, syncedInConn >>
               ELSE IF NextIndex(targets', i) <= Len(targets')
                    THEN /\ i' = NextIndex(targets', i)
                         /\ UNCHANGED << pc, backoff_time, streak, ended, streams,
                                         syncedInConn >>
                    ELSE /\ i' = 0
                         /\ pc' = "read"
                         /\ backoff_time' = BackoffAfterSyncEvent(backoff_time, log')
                         /\ streak' = 0
                         /\ syncedInConn' = TRUE
                         /\ UNCHANGED << ended, streams >>
    /\ UNCHANGED << resource_version, event, presented, opens, lastSleep, bootOK,
                    repeat >>

\* The ways the for loop over w.stream can end: the generator is exhausted
\* (timeout_seconds elapsed), or it raises ApiException, MaxRetryError or
\* another Exception (lines 120-126).
StreamEndCauses == {"timeout", "api", "retry", "exc"}

\* Variant of AfterStreamEnd: an ApiException of the stream ends the process.
StopOnApiException(cause) == IF cause = "api" THEN "stopped" ELSE "sleep"

\* Variant of AfterStreamEnd: the `except Exception` clause of line 125 is
\* missing, so an unclassified exception leaves the function.
StopOnUnclassified(cause) == IF cause = "exc" THEN "stopped" ELSE "sleep"

\* Where control goes after the stream ended: every handler falls through
\* to line 129.
AfterStreamEnd(cause) == "sleep"

\* Variant of CursorAfterStreamEnd: an ApiException of the stream (such as
\* 410 Gone for an expired cursor) makes the loop start over without a cursor.
ResetCursorOnApiError(cause, rv) == IF cause = "api" THEN NoCursor ELSE rv

\* resource_version after the for loop ended: no handler of lines 120-126
\* assigns to it.
CursorAfterStreamEnd(cause, rv) == rv

\* Variant of StreamsAfterEnd: the subscription is left open when the loop ends.
StreamLeftOpen(n) == n

\* Open subscriptions after the for loop over w.stream ended: the generator
\* is finished (exhausted or raised), which closes its response.
StreamsAfterEnd(n) == n - 1

StreamEnd ==
    /\ pc = "read"
    /\ \E cause \in StreamEndCauses :
         /\ ended' = cause
         /\ pc' = AfterStreamEnd(cause)
         /\ resource_version' = CursorAfterStreamEnd(cause, resource_version)
    /\ streams' = StreamsAfterEnd(streams)
    /\ UNCHANGED << backoff_time, i, event, store, log, patched, presented, opens,
                    lastSleep, streak, everPatched, bootOK, targets, repeat,
                    syncedInConn >>

(* lines 129-131: time.sleep(backoff_time), then the doubling *)
Sleep ==
    /\ pc = "sleep"
    /\ lastSleep' = backoff_time
    /\ streak' = Min(streak + 1, MaxStreak)
    /\ backoff_time' = NextBackoff(backoff_time)
    /\ pc' = "open"
    /\ UNCHANGED << resource_version, i, event, store, log, patched, presented,
                    opens, everPatched, bootOK, ended, targets, streams, repeat,
                    syncedInConn >>

Next ==
    \/ Bootstrap
    \/ OpenStream
    \/ HandleEvent
    \/ PatchTarget
    \/ StreamEnd
    \/ Sleep

Spec == Init /\ [][Next]_vars

\* The loop's own steps always complete: time.sleep returns after at most
\* MaxBackoff seconds and the next statement executed is the w.stream call.
\* Nothing is assumed of the server: it need not deliver a notification
\* and may end a stream at any time.
\* The run starts with config-1 missing and config-2 present: the targets
\* play no part in the loop's progress.
FairInit ==
    /\ Init
    /\ targets = TARGET_CONFIGMAPS
    /\ ~store[TargetKey(TARGET_CONFIGMAPS[1])].exists
    /\ store[TargetKey(TARGET_CONFIGMAPS[2])].data # EmptyMap

FairSpec == FairInit /\ [][Next]_vars /\ WF_vars(Sleep) /\ WF_vars(OpenStream)

----------------------------------------------------------------------------
(* Vocabulary of the properties *)

NTargets == Len(targets)

KeyOf(n) == TargetKey(targets[n])

\* d is an absent (None) or empty snapshot.
EmptyOrAbsent(d) == d.none \/ d.kv = EmptyMap

\* t is the kind of an Added or Modified notification.
AddedOrModified(t) == t = "ADDED" \/ t = "MODIFIED"

\* The current notification asked for a replicate pass with a usable snapshot.
ReplicateEvent == AddedOrModified(event.type) /\ ~EmptyOrAbsent(event.data)

\* The replicate pass of the current notification is over.
PassDone == ReplicateEvent /\ pc # "sync"

\* The n-th patch call of the current pass returned without an exception.
Succeeded(n) == n + 1 <= Len(log) /\ log[n + 1] = "info_synced"

\* A step that completes the handling of a notification.
EventCompleted ==
    \/ event' # event /\ pc' = "read"
    \/ pc = "sync" /\ pc' = "read"

\* m holds every key of s with the value s gives it.
Contains(m, s) == \A k \in DOMAIN s : k \in DOMAIN m /\ m[k] = s[k]

----------------------------------------------------------------------------
\* C1: after the replicate pass of an ADDED/MODIFIED notification with a
\* non-empty snapshot S, the data field of each target whose patch call
\* succeeded equals S exactly (keys absent from S are gone).
C1_FullReplace ==
    PassDone =>
        \A n \in 1..NTargets :
            Succeeded(n) => store[KeyOf(n)].data = event.data.kv

\* C2: a DELETED notification issues no patch call, changes no target, and
\* leaves the loop reading the same stream; this holds for as long as it is
\* the current notification.
C2_DeletedNeverPatches ==
    [][ event'.type = "DELETED" =>
          /\ store' = store
          /\ patched' = << >>
          /\ pc' # "sync"
          /\ (event' # event => pc' = "read" /\ ended' = "none")
          /\ log' = << "warning_deleted" >> ]_vars

C2_Witness ==
    /\ event.type = "DELETED"
    /\ pc = "read"
    /\ ended = "none"
    /\ everPatched
    /\ patched = << >>

\* C3: an ADDED/MODIFIED notification whose snapshot is None or empty issues
\* no patch call, changes no target and logs exactly one record, a warning.
C3_EmptySnapshotSkips ==
    [][ (AddedOrModified(event'.type) /\ EmptyOrAbsent(event'.data)) =>
          /\ store' = store
          /\ patched' = << >>
          /\ pc' # "sync"
          /\ log' = << "warning_empty" >> ]_vars

C3_Witness ==
    /\ event.type = "MODIFIED"
    /\ ~event.data.none
    /\ DOMAIN event.data.kv = {}
    /\ pc = "read"
    /\ everPatched
    /\ log = << "warning_empty" >>

\* C4: in a replicate pass every target of the list gets its patch call, in
\* list order, whatever the earlier calls returned; a call that succeeds has
\* its snapshot applied to its target; and the pass returns to the stream
\* loop (control never leaves it through an exception).
C4_FailureIsolation ==
    /\ (pc = "sync" => patched = [n \in 1..(i - 1) |-> n])
    /\ (pc = "sync" => ended = "none" /\ ReplicateEvent)
    /\ (PassDone =>
          /\ patched = [n \in 1..NTargets |-> n]
          /\ Len(log) = NTargets + 1
          /\ \A n \in 1..NTargets :
                Succeeded(n) =>
                    /\ store[KeyOf(n)].exists
                    /\ Contains(store[KeyOf(n)].data, event.data.kv))

C4_Witness ==
    /\ PassDone
    /\ pc = "read"
    /\ ended = "none"
    /\ log = << "info_syncing", "error_not_found", "info_synced" >>
    /\ ~store[KeyOf(1)].exists
    /\ Contains(store[KeyOf(2)].data, event.data.kv)

\* The delays of the claim, by position in a run of consecutive sleeps.
ExpectedDelays == << 1, 2, 4, 8, 16, 32, 60, 60, 60 >>

ExpectedDelay(n) == IF n <= Len(ExpectedDelays) THEN ExpectedDelays[n] ELSE 60

\* C5: the n-th sleep in a row since the delay was last 1 (at start, or after
\* an ADDED/MODIFIED notification) lasts the n-th of 1, 2, 4, 8, 16, 32, 60,
\* 60, 60, ...; the delay is doubled only after the sleep.
C5_BackoffSequence ==
    streak < MaxStreak =>
        /\ (streak >= 1 => lastSleep = ExpectedDelay(streak))
        /\ backoff_time = ExpectedDelay(streak + 1)

C5_Witness == streak = 9 /\ lastSleep = 60 /\ backoff_time = 60 /\ pc = "read"

\* C6: the delay is 1 right after every notification processed without
\* error, whatever its kind.
C6_ResetOnAnyEvent == [][ EventCompleted => backoff_time' = InitialBackoff ]_vars

\* C7: every w.stream call presents the cursor of the most recently
\* processed notification (the last one of the prior connection when it had
\* any); the first call of a run presents the unset cursor.
C7_PresentedCursor ==
    [][ (pc = "open" /\ pc' = "read") =>
          /\ presented' = event.rv
          /\ (opens = 0 => presented' = NoCursor) ]_vars

C7_Witness ==
    /\ opens >= 2
    /\ pc = "read"
    /\ presented # NoCursor
    /\ presented = event.rv
    /\ ended = "none"

\* C8: from the moment a notification is read, the held cursor is the cursor
\* that notification carries, whatever its kind and whatever the sync did.
C8_CursorFollowsEvent == resource_version = event.rv

C8_Witness ==
    /\ PassDone
    /\ pc = "read"
    /\ log = << "info_syncing", "error_patch_failed", "critical_unexpected" >>
    /\ resource_version = event.rv
    /\ resource_version # NoCursor

\* C9: while a stream is open the held cursor never moves backwards.
C9_CursorNeverRegresses ==
    [][ (pc \in {"read", "sync"} /\ pc' \in {"read", "sync"}) =>
          resource_version' >= resource_version ]_vars

C9_Witness ==
    /\ pc = "read"
    /\ ended = "none"
    /\ presented # NoCursor
    /\ resource_version > presented

AllFailed ==
    /\ Len(log) = NTargets + 1
    /\ \A n \in 1..NTargets : ~Succeeded(n)

\* C12: a patch failure never becomes a stream failure: every step of a
\* pass, whatever the patch call returned, keeps the stream open and
\* triggers no sleep and no reopen, and the step that ends the pass returns
\* to reading that stream.
C12_NoEscalation ==
    [][ pc = "sync" =>
          /\ pc' \in {"sync", "read"}
          /\ ended' = "none"
          /\ streams' = streams
          /\ opens' = opens
          /\ presented' = presented
          /\ lastSleep' = lastSleep ]_vars

C12_Witness ==
    /\ PassDone
    /\ AllFailed
    /\ pc = "read"
    /\ ended = "none"
    /\ streams = 1
    /\ log = << "info_syncing", "error_not_found", "error_patch_failed" >>

\* C13: no step of the loop or of a pass changes the target list.
C13_TargetsFixed == [][ targets' = targets ]_vars

C13_Witness ==
    /\ targets = TARGET_CONFIGMAPS
    /\ PassDone
    /\ log = << "info_syncing", "error_not_found", "critical_unexpected" >>
    /\ opens >= 2
    /\ lastSleep >= 2

\* C14: the second of two consecutive ADDED/MODIFIED notifications with the
\* same non-empty snapshot gets a complete pass over all targets, and after
\* it each successfully patched target's data equals that snapshot.
C14_RepeatedPass ==
    (repeat /\ pc # "sync") =>
        /\ Len(patched) = NTargets
        /\ \A n \in 1..NTargets :
              Succeeded(n) => store[KeyOf(n)].data = event.data.kv

\* The number of patch calls of the current pass issued for ConfigMap k.
CallsOn(k) == Cardinality({ n \in 1..Len(patched) : KeyOf(patched[n]) = k })

\* The number of entries of the target list naming ConfigMap k.
EntriesOf(k) == Cardinality({ n \in 1..NTargets : KeyOf(n) = k })

\* C15: a pass with a non-empty snapshot makes exactly one patch call per
\* entry of the list, in list order: as many calls as entries, one outcome
\* record per call, and a ConfigMap listed twice is patched twice.
C15_OneCallPerEntry ==
    /\ (pc = "sync" => Len(patched) = i - 1 /\ Len(log) = i)
    /\ (PassDone =>
          /\ Len(patched) = NTargets
          /\ Len(log) = NTargets + 1
          /\ \A n \in 1..NTargets : patched[n] = n
          /\ \A k \in TargetKeys(targets) : CallsOn(k) = EntriesOf(k))

C15_Witness ==
    /\ PassDone
    /\ KeyOf(1) = KeyOf(2)
    /\ patched = << 1, 2 >>
    /\ CallsOn(KeyOf(1)) = 2
    /\ log = << "info_syncing", "error_patch_failed", "info_synced" >>

\* C16 as stated: from the first open on, exactly one subscription is open
\* at every moment.
C16_ExactlyOne == opens >= 1 => streams = 1

\* C16 as amended: at most one subscription is open at any time; exactly one
\* while the loop reads or handles notifications, none before the first
\* open and none between a stream's end and the next open.
C16_AtMostOne ==
    /\ streams \in {0, 1}
    /\ (streams = 1 <=> pc \in {"read", "sync"})

C16_Witness == pc = "sleep" /\ streams = 0 /\ opens >= 1 /\ ended = "timeout"

\* C17: a notification is read only when the one before it has been handled
\* to the end, its pass having called patch for every target; while a pass
\* runs, the notification and the cursor stay those of that pass.
C17_OneAtATime ==
    [][ /\ (event' # event =>
              /\ pc = "read"
              /\ i = 0
              /\ (ReplicateEvent => Len(patched) = NTargets))
        /\ (pc = "sync" => event' = event /\ resource_version' = resource_version)
      ]_vars

C17_Witness ==
    /\ pc = "sync"
    /\ i = 2
    /\ patched = << 1 >>
    /\ repeat
    /\ opens = 1

\* C18: the held cursor changes only when a notification is read; once set
\* it is never unset; a stream termination of any kind leaves it unchanged,
\* so a stream that ended without delivering anything (an expired cursor)
\* is reopened with the cursor presented before.
C18_CursorKept ==
    [][ /\ (event' = event => resource_version' = resource_version)
        /\ (resource_version # NoCursor => resource_version' # NoCursor)
        /\ (ended' # ended => resource_version' = resource_version)
        /\ ((pc = "open" /\ opens >= 1 /\ presented = event.rv)
               => presented' = presented) ]_vars

\* A stream opened with a set cursor has ended with ApiException without
\* delivering anything, and the loop is about to reopen with that cursor.
C18_Witness ==
    /\ pc = "open"
    /\ ended = "api"
    /\ AddedOrModified(event.type)
    /\ streak >= 2
    /\ presented # NoCursor
    /\ presented = resource_version

\* C19: the delay is always one of 1, 2, 4, 8, 16, 32, 60.
C19_BackoffRange == backoff_time \in {1, 2, 4, 8, 16, 32, 60}

C19_Witness == backoff_time = 60 /\ pc = "read" /\ event.type = "DELETED"

\* C20: once an ADDED/MODIFIED notification has been handled on a stream,
\* whatever its pass did (skipped, or every patch failed), the delay is 1
\* until that stream's sleep, which therefore lasts exactly 1.
C20_ResetIndependentOfOutcome ==
    /\ ((syncedInConn /\ pc \in {"read", "sleep"}) => backoff_time = InitialBackoff)
    /\ ((syncedInConn /\ pc = "open") => lastSleep = 1)

C20_Witness ==
    /\ syncedInConn
    /\ pc = "open"
    /\ lastSleep = 1
    /\ opens >= 2
    /\ PassDone
    /\ AllFailed

====
